---- MODULE Spec2Model ----
(***************************************************************************)
(* A model of local_folium.py: the source scan (process_py/local_https),   *)
(* the downloads, the CSS pass (download_from_css) and the placeholder     *)
(* replacement (_replace), with the two URL helpers url_relative and       *)
(* url_to_name.                                                            *)
(*                                                                         *)
(* A Python str is a sequence of one-character strings; indices in the     *)
(* helpers are Python's (0-based, -1 for "not found").  The 40 hex digits  *)
(* of a SHA-1 digest are one symbolic character that names the hashed      *)
(* text, so that two digests are equal exactly when the texts are.         *)
(* pathlib is modelled as PurePosixPath of Python 3.8 to 3.13.             *)
(***************************************************************************)
EXTENDS Integers, Sequences, FiniteSets, TLC

\* ------------------------------------------------------------------ str

Min(a, b) == IF a < b THEN a ELSE b

Max(a, b) == IF a > b THEN a ELSE b

\* A slice index as Python clamps it for a string of length n.
Norm(i, n) == IF i < 0 THEN Max(i + n, 0) ELSE Min(i, n)

\* s[b:e]
Slice(s, b, e) == SubSeq(s, Norm(b, Len(s)) + 1, Norm(e, Len(s)))

\* s[b:]
From(s, b) == Slice(s, b, Len(s))

\* s.startswith(p)
StartsWith(s, p) == Len(s) >= Len(p) /\ SubSeq(s, 1, Len(p)) = p

\* s.endswith(p)
EndsWith(s, p) == Len(s) >= Len(p) /\ SubSeq(s, Len(s) - Len(p) + 1, Len(s)) = p

\* s.startswith((p1, p2, ...)) and s.endswith((p1, p2, ...))
StartsWithAny(s, ps) == \E p \in ps : StartsWith(s, p)

EndsWithAny(s, ps) == \E p \in ps : EndsWith(s, p)

\* The 0-based offsets at which p occurs in s.
Occ(s, p) == {i \in 0..(Len(s) - Len(p)) : SubSeq(s, i + 1, i + Len(p)) = p}

SetMin(S) == CHOOSE x \in S : \A y \in S : x <= y

SetMax(S) == CHOOSE x \in S : \A y \in S : x >= y

\* s.find(p) and s.rfind(p)
Find(s, p) == IF Occ(s, p) = {} THEN -1 ELSE SetMin(Occ(s, p))

RFind(s, p) == IF Occ(s, p) = {} THEN -1 ELSE SetMax(Occ(s, p))

\* s.replace(old, new), old not empty: left to right, non-overlapping.
RECURSIVE Replace(_, _, _)
Replace(s, old, new) ==
    IF Find(s, old) < 0 THEN s
    ELSE Slice(s, 0, Find(s, old)) \o new
         \o Replace(From(s, Find(s, old) + Len(old)), old, new)

Whitespace == {" ", "\n", "\t", "\r"}

RECURSIVE LStrip(_)
LStrip(s) == IF s # <<>> /\ Head(s) \in Whitespace THEN LStrip(Tail(s)) ELSE s

RECURSIVE RStrip(_, _)
RStrip(s, cs) ==
    IF s # <<>> /\ s[Len(s)] \in cs THEN RStrip(SubSeq(s, 1, Len(s) - 1), cs) ELSE s

\* s.strip()
Strip(s) == RStrip(LStrip(s), Whitespace)

\* The letters of the scheme in upper case, as re.IGNORECASE folds them.
Lower(c) ==
    CASE c = "H" -> "h" [] c = "T" -> "t" [] c = "P" -> "p" [] c = "S" -> "s"
      [] OTHER -> c

LowerStr(s) == [i \in 1..Len(s) |-> Lower(s[i])]

\* ------------------------------------------------------------ constants

PLACEHOLDER ==
    <<"_", "_", "m", "y", "s", "t", "e", "r", "y", ":", "/", "/",
      "p", "l", "a", "c", "e", "h", "o", "l", "d", "e", "r", "_", "_">>

HTTPS == <<"h", "t", "t", "p", "s", ":", "/", "/">>

SLASH == <<"/">>

UP == <<".", ".", "/">>

CSS == <<".", "c", "s", "s">>

LEAFLET_CSS == <<"l", "e", "a", "f", "l", "e", "t">> \o CSS

PNG == <<".", "p", "n", "g">>

MARKER_ICON == <<"m", "a", "r", "k", "e", "r", "-", "i", "c", "o", "n">> \o PNG

MARKER_ICON_2X ==
    <<"m", "a", "r", "k", "e", "r", "-", "i", "c", "o", "n", "-", "2", "x">> \o PNG

MARKER_SHADOW ==
    <<"m", "a", "r", "k", "e", "r", "-", "s", "h", "a", "d", "o", "w">> \o PNG

\* The names url_to_name does not hash.
WellKnown == {LEAFLET_CSS, MARKER_ICON, MARKER_ICON_2X, MARKER_SHADOW}

\* ------------------------------------------------------- url_relative

RECURSIVE StripUps(_, _)
StripUps(u, r) ==
    IF StartsWith(r, UP)
    THEN StripUps(Slice(u, 0, RFind(u, SLASH)), From(r, 3))
    ELSE <<u, r>>

url_relative_NoFirstStrip(u, r) ==
    LET p == StripUps(u, r) IN p[1] \o SLASH \o p[2]

url_relative(u, r) ==
    LET p == StripUps(Slice(u, 0, RFind(u, SLASH)), r) IN p[1] \o SLASH \o p[2]

\* -------------------------------------------------------- url_to_name

\* sha1(u.encode('UTF-8')).hexdigest()
Sha1Hex(u) == <<"sha1" \o ToString(u)>>

\* s.split('/')
RECURSIVE SplitSlash(_)
SplitSlash(s) ==
    IF Find(s, SLASH) < 0 THEN <<s>>
    ELSE <<Slice(s, 0, Find(s, SLASH))>> \o SplitSlash(From(s, Find(s, SLASH) + 1))

\* PurePosixPath(u).name: the last component, empty and '.' components dropped.
PathName(u) ==
    LET parts == SelectSeq(SplitSlash(u), LAMBDA c : c # <<>> /\ c # <<".">>)
    IN  IF parts = <<>> THEN <<>> ELSE parts[Len(parts)]

\* PurePosixPath(u).suffix
PathSuffix(u) ==
    LET name == PathName(u)
        i == RFind(name, <<".">>)
    IN  IF 0 < i /\ i < Len(name) - 1 THEN From(name, i) ELSE <<>>

\* What url_to_name returns when it raises.
ValueError == <<"ValueError">>

\* u after the '//' normalisation.
NormUrl(u) == IF StartsWith(u, <<"/", "/">>) THEN <<"h", "t", "t", "p", "s", ":">> \o u ELSE u

\* suffix after `if (ix:=suffix.find('#')>=0): suffix = suffix[:ix]`: ix is the
\* comparison's value, True, which slices as 1.
CutFragment(suffix) ==
    LET ix == (Find(suffix, <<"#">>) >= 0) IN
    IF ix THEN Slice(suffix, 0, 1) ELSE suffix

url_to_name_HashName(u0) ==
    LET u == NormUrl(u0) IN
    IF ~StartsWith(u, HTTPS) THEN ValueError
    ELSE IF EndsWithAny(u, WellKnown) THEN From(u, RFind(u, SLASH) + 1)
    ELSE Sha1Hex(PathName(u)) \o CutFragment(PathSuffix(u))

url_to_name_NoCheck(u0) ==
    LET u == NormUrl(u0) IN
    IF EndsWithAny(u, WellKnown) THEN From(u, RFind(u, SLASH) + 1)
    ELSE Sha1Hex(u) \o CutFragment(PathSuffix(u))

url_to_name(u0) ==
    LET u == NormUrl(u0) IN
    IF ~StartsWith(u, HTTPS) THEN ValueError
    ELSE IF EndsWithAny(u, WellKnown) THEN From(u, RFind(u, SLASH) + 1)
    ELSE Sha1Hex(u) \o CutFragment(PathSuffix(u))

\* ------------------------------------------------------------ url_map

\* The dict self.url_map, in insertion order: a sequence of <<key, value>>.
Keys(m) == {m[i][1] : i \in DOMAIN m}

Has(m, k) == k \in Keys(m)

Get(m, k) == m[CHOOSE i \in DOMAIN m : m[i][1] = k][2]

\* m[k] = v
Put(m, k, v) ==
    IF Has(m, k)
    THEN [i \in DOMAIN m |-> IF m[i][1] = k THEN <<k, v>> ELSE m[i]]
    ELSE Append(m, <<k, v>>)

RECURSIVE PutAll(_, _)
PutAll(m, kvs) ==
    IF kvs = <<>> THEN m ELSE PutAll(Put(m, Head(kvs)[1], Head(kvs)[2]), Tail(kvs))

\* ------------------------------------------------------------- patterns

Quotes == {"\"", "'"}

\* URL_RE matched at offset b of line: a quote, https:// in any case, one or
\* more characters that are not quotes, a quote.  The value is the match's end
\* (exclusive), or -1.
UrlMatchEnd(line, b) ==
    LET after == {q \in (b + 9)..(Len(line) - 1) : line[q + 1] \in Quotes}
    IN  IF /\ b + 9 <= Len(line)
           /\ line[b + 1] \in Quotes
           /\ LowerStr(Slice(line, b + 1, b + 9)) = HTTPS
           /\ after # {}
           /\ SetMin(after) > b + 9
        THEN SetMin(after) + 1
        ELSE -1

\* URL_RE.search(line): m.span() of the leftmost match, or <<-1, -1>>.
UrlSearch(line) ==
    LET bs == {b \in 0..(Len(line) - 1) : UrlMatchEnd(line, b) >= 0}
    IN  IF bs = {} THEN <<-1, -1>> ELSE <<SetMin(bs), UrlMatchEnd(line, SetMin(bs))>>

URL_OPEN == <<"u", "r", "l", "(">>

\* CSS_RE matched at offset i of text: 'url(', one or more characters that are
\* not ')', then ')'.  The value is the offset of that ')', or -1.
CssMatchClose(text, i) ==
    LET close == {j \in (i + 4)..(Len(text) - 1) : text[j + 1] = ")"}
    IN  IF /\ Slice(text, i, i + 4) = URL_OPEN
           /\ close # {}
           /\ SetMin(close) > i + 4
        THEN SetMin(close)
        ELSE -1

\* [m.span(1) for m in CSS_RE.finditer(text)] from offset i on.
RECURSIVE CssFindIter(_, _)
CssFindIter(text, i) ==
    IF i >= Len(text) THEN <<>>
    ELSE IF CssMatchClose(text, i) >= 0
         THEN <<<<i + 4, CssMatchClose(text, i)>>>>
              \o CssFindIter(text, CssMatchClose(text, i) + 1)
         ELSE CssFindIter(text, i + 1)

Reverse(s) == [i \in 1..Len(s) |-> s[Len(s) + 1 - i]]

\* f.readlines(): the lines with their line ends.
RECURSIVE ReadLines(_)
ReadLines(buf) ==
    IF buf = <<>> THEN <<>>
    ELSE IF Find(buf, <<"\n">>) < 0 THEN <<buf>>
    ELSE <<Slice(buf, 0, Find(buf, <<"\n">>) + 1)>>
         \o ReadLines(From(buf, Find(buf, <<"\n">>) + 1))

\* ''.join(lines)
RECURSIVE Join(_)
Join(lines) == IF lines = <<>> THEN <<>> ELSE Head(lines) \o Join(Tail(lines))

\* ---------------------------------------------------------------- state

VARIABLES
    pc,         \* where the run is: "scan", "download_py", "css", "processed",
                \* "replaced", "error", or "fn"/"fn_done" for a single call
    args_dir,   \* whether --dir was given
    folium,     \* the .py files under --folium: a sequence of file texts
    fi,         \* process_py: the file being scanned
    old_lines,  \* process_py: its lines as read
    upd_lines,  \* process_py: the lines local_https has returned so far
    url_map,    \* UrlModifier.url_map
    web_css,    \* the text every stylesheet URL serves
    local_dir,  \* the files under --dir: name -> text
    log,        \* the requests made and the files opened, in order
    todo,       \* download_from_css: the entries of dict(self.url_map) to come
    cur,        \* download_from_css: the entry (old_u, name) being rewritten
    text,       \* download_from_css: text
    ms,         \* download_from_css: the matches to come, last first
    matched,    \* download_from_css: matched
    name2,      \* download_from_css: name2, Unbound before its first assignment
    nrep,       \* the number of replace runs so far
    args_url,   \* replace: --url
    call,       \* a single call of url_relative or url_to_name: its arguments
    ret         \* its result

vars ==
    <<pc, args_dir, folium, fi, old_lines, upd_lines, url_map, web_css, local_dir,
      log, todo, cur, text, ms, matched, name2, nrep, args_url, call, ret>>

scanVars == <<fi, old_lines, upd_lines>>

cssVars == <<todo, cur, text, ms, matched, name2>>

fnVars == <<call, ret>>

None == <<"None">>

Unbound == <<"Unbound">>

NoFiles == [n \in {} |-> <<>>]

\* ---------------------------------------------------------------- inputs

MaxFiles == 2

MaxRefs == 2

MaxReplace == 2

MaxLines == 2

MaxSegs == 3

MaxUps == 2

DQ == "\""

SQ == "'"

HostA == HTTPS \o <<"a", "/">>

\* The sequences of 1 to n members of S.
SeqsUpTo(S, n) == UNION {[1..k -> S] : k \in 1..n}

\* The selections of k members of the list, in the list's order.
Picks(list, k) ==
    {[i \in 1..k |-> list[f[i]]] :
        f \in {g \in [1..k -> DOMAIN list] : \A i \in 1..(k - 1) : g[i] < g[i + 1]}}

PicksUpTo(list, n) == UNION {Picks(list, k) : k \in 0..n}

\* The .py files of a whole run hold one line each.
PipeLines ==
    << <<"i", "=", SQ>> \o HostA \o MARKER_ICON \o <<SQ, "\n">>,
       <<"u", "=", DQ>> \o HostA \o LEAFLET_CSS \o <<DQ, "\n">>,
       <<"s", "=", DQ>> \o HostA \o <<"c", "/", "s">> \o CSS \o <<DQ, "\n">>,
       <<"j", "=", DQ, "H", "T", "T", "P", "S", ":", "/", "/", "a", "/", "j", DQ, "\n">> >>

PipeTrees == PicksUpTo(PipeLines, MaxFiles) \ {<<>>}

\* What stands between the parentheses of a url() in the stylesheet served.
Refs ==
    << MARKER_ICON,
       <<DQ, "b", ".", "e", "o", "t", "?", "#", "f", DQ>>,
       <<"d", "a", "t", "a", ":", "x">>,
       <<SQ, "#", "f", SQ>>,
       <<"%", "2">>,
       <<"/", "/", "c", "/", "x">> \o PNG,
       <<"d", "/">> \o LEAFLET_CSS,
       UP \o UP \o UP \o UP \o UP \o UP \o UP \o UP \o <<"/", "x">>,
       <<"b", ".", "e", "o", "t">> >>

CssText(refs) == Join([i \in DOMAIN refs |-> URL_OPEN \o refs[i] \o <<")", ";">>])

CssTexts == {CssText(rs) : rs \in PicksUpTo(Refs, MaxRefs)}

BaseUrls ==
    { HTTPS \o <<"l", "/", "b">>,
      HTTPS \o <<"l", "/", "b", "/", "/">> }

\* The lines of the file of a scan alone.
ScanLines ==
    { <<"x", " ", "=", " ", DQ>> \o HTTPS \o <<"c", "/", "l", ".", "j", "s", DQ, "\n">>,
      <<" ", ">", ">", ">", " ", "m", "(", DQ>> \o HTTPS \o <<"c", "/", "t", DQ, ")", "\n">>,
      <<".", ".", ".", " ", SQ>> \o HTTPS \o <<"c", "/", "t", SQ, "\n">>,
      <<DQ, "H", "T", "T", "P", "S", ":", "/", "/", "c", "/", "U", DQ, " ", DQ>>
          \o HTTPS \o <<"c", "/", "v", DQ, "\n">>,
      <<"i", "m", "p", "o", "r", "t", " ", "o", "s", "\n">>,
      <<"a", "(", DQ>> \o HTTPS \o <<"c", "/", "x">> \o CSS \o <<DQ, ",", SQ>>
          \o HTTPS \o <<"c", "/", "y", SQ, ")", "\n">>,
      <<SQ>> \o HTTPS \o <<"c", "/", "m", DQ, "\n">>,
      <<DQ>> \o HTTPS \o <<DQ, " ", SQ>> \o HTTPS \o <<"c", "/", "z", SQ, "\n">>,
      <<DQ>> \o PLACEHOLDER \o <<"/", "a", ".", "j", "s", DQ, "\n">>,
      <<"y", "=", SQ>> \o HTTPS \o <<"c", "/">> \o LEAFLET_CSS \o <<SQ, " ", "#", "x", "\n">>,
      <<DQ, "/", "/", "c", "/", "p", DQ>> }

\* The path segments of the URLs a single call is given.
FnSegs ==
    { <<"b">>, <<"x">> \o CSS, <<>>, LEAFLET_CSS }

\* What follows the leading '../' of a relative reference.
FnRests ==
    { <<"d">> \o PNG, <<"i", "/", "x">>, <<>>, <<".", ".">> }

\* What follows the last path segment of a URL to name.
FnTails ==
    { <<>>, <<"#", "f">>, <<"?", "v", "=", "2", "#", "f", "r", "a", "g">>,
      <<"#", "a", ".", "b">>, <<"#", "a", "/", "b">>, <<"?", "v">> }

\* ------------------------------------------------------------ download

\* requests.get(u) raises for a URL without the scheme.
GetRaises(u) == LowerStr(Slice(u, 0, 8)) # HTTPS

\* r.content for u
Web(u) == IF PathSuffix(u) = CSS THEN web_css ELSE <<"bytes" \o ToString(u)>>

\* How many of the requests dl, made in order, succeed when the network fails
\* after n of them.
Succeed(dl, n) ==
    LET bad == {i \in DOMAIN dl : GetRaises(dl[i][1])}
    IN  Min(Min(n, Len(dl)), IF bad = {} THEN Len(dl) ELSE SetMin(bad) - 1)

\* local_dir after download_file(u, local_dir, name) for the first n of dl.
RECURSIVE download_file(_, _, _)
download_file(dir, dl, n) ==
    IF n = 0 THEN dir
    ELSE download_file((Head(dl)[2] :> Web(Head(dl)[1])) @@ dir, Tail(dl), n - 1)

GetLog(dl, n) == [i \in 1..n |-> <<"get", dl[i][1], dl[i][2]>>]

\* --------------------------------------------------------- process_py

Transcript == {<<">", ">", ">">>, <<".", ".", ".">>}

local_https_DropQuote(m, line) ==
    LET b == UrlSearch(line)[1]
        e == UrlSearch(line)[2]
        old_u == Slice(line, b + 1, e - 1)
        name == url_to_name(old_u)
    IN  IF b < 0 \/ StartsWithAny(Strip(line), Transcript)
        THEN [line |-> line, url_map |-> m, raised |-> FALSE]
        ELSE IF name = ValueError
        THEN [line |-> line, url_map |-> m, raised |-> TRUE]
        ELSE [line |-> Slice(line, 0, b + 1) \o PLACEHOLDER \o SLASH \o name
                       \o From(line, e),
              url_map |-> Put(m, old_u, name),
              raised |-> FALSE]

\* UrlModifier.local_https(line) with self.url_map = m: the line returned, the
\* url_map left, and whether url_to_name raised.
local_https(m, line) ==
    LET b == UrlSearch(line)[1]
        e == UrlSearch(line)[2]
        old_u == Slice(line, b + 1, e - 1)
        name == url_to_name(old_u)
    IN  IF b < 0 \/ StartsWithAny(Strip(line), Transcript)
        THEN [line |-> line, url_map |-> m, raised |-> FALSE]
        ELSE IF name = ValueError
        THEN [line |-> line, url_map |-> m, raised |-> TRUE]
        ELSE [line |-> Slice(line, 0, b + 1) \o PLACEHOLDER \o SLASH \o name
                       \o From(line, e - 1),
              url_map |-> Put(m, old_u, name),
              raised |-> FALSE]

\* process_py is about to open the next file: the lines of the last are done.
Opening == Len(upd_lines) = Len(old_lines)

\* The file the next line is in, its lines, and the lines returned so far.
ScanFile == IF Opening THEN fi + 1 ELSE fi

ScanOld == IF Opening THEN ReadLines(folium[fi + 1]) ELSE old_lines

ScanUpd == IF Opening THEN <<>> ELSE upd_lines

\* The line local_https is called with next.
ScanLine == ScanOld[Len(ScanUpd) + 1]

\* One call of local_https from process_py; after the last line of a file the
\* file is written if a line changed.  After the last file _process goes on to
\* the downloads, or returns without --dir.
LocalHttps ==
    /\ pc = "scan"
    /\ LET r == local_https(url_map, ScanLine)
           upd == Append(ScanUpd, r.line)
           last == Len(upd) = Len(ScanOld)
           changed == last /\ upd # ScanOld
       IN  IF r.raised
           THEN /\ pc' = "error"
                /\ UNCHANGED <<folium, scanVars, url_map, log>>
           ELSE /\ url_map' = r.url_map
                /\ folium' = IF changed THEN [folium EXCEPT ![ScanFile] = Join(upd)]
                                        ELSE folium
                /\ log' = IF changed
                          THEN Append(log, <<"write", <<"py">>, <<ToString(ScanFile)>>>>)
                          ELSE log
                /\ fi' = ScanFile
                /\ old_lines' = ScanOld
                /\ upd_lines' = upd
                /\ pc' = IF last /\ ScanFile = Len(folium)
                         THEN (IF args_dir THEN "download_py" ELSE "processed")
                         ELSE "scan"
    /\ UNCHANGED <<args_dir, web_css, local_dir, cssVars, nrep, args_url, fnVars>>

\* ---------------------------------------------------- download_from_py

\* download_from_py: every entry of url_map is fetched; then download_from_css
\* starts on dict(self.url_map).  The network may fail after n requests.
DownloadFromPy ==
    /\ pc = "download_py"
    /\ \E n \in 0..Len(url_map) :
         LET k == Succeed(url_map, n) IN
         /\ local_dir' = download_file(local_dir, url_map, k)
         /\ log' = log \o GetLog(url_map, k)
         /\ pc' = IF k < Len(url_map) THEN "error" ELSE "css"
         /\ todo' = IF k < Len(url_map) THEN todo ELSE url_map
    /\ UNCHANGED <<args_dir, folium, scanVars, url_map, web_css, cur, text, ms,
                   matched, name2, nrep, args_url, fnVars>>

\* --------------------------------------------------- download_from_css

IsCssEntry(entry) == EndsWith(entry[2], CSS)

CssLeft == {i \in DOMAIN todo : IsCssEntry(todo[i])}

\* reversed(list(CSS_RE.finditer(text)))
Matches(t) == Reverse(CssFindIter(t, 0))

Pending_Requeue(td, registered) == td \o registered

\* The entries the loop has still to visit once more entries are registered:
\* it runs over a copy of url_map made when it started.
Pending(td, registered) == td

\* The loop reaches the next entry whose name ends in '.css': the file is read
\* and its matches are listed last first.  A file without a match is left.
CssOpen ==
    /\ pc = "css"
    /\ CssLeft # {}
    /\ LET i == SetMin(CssLeft)
           t == local_dir[todo[i][2]]
       IN  /\ todo' = SubSeq(todo, i + 1, Len(todo))
           /\ cur' = todo[i]
           /\ text' = t
           /\ ms' = Matches(t)
           /\ matched' = FALSE
           /\ log' = Append(log, <<"read", todo[i][1], todo[i][2]>>)
           /\ pc' = IF Matches(t) = <<>> THEN "css" ELSE "css_ref"
    /\ UNCHANGED <<args_dir, folium, scanVars, url_map, web_css, local_dir, name2,
                   nrep, args_url, fnVars>>

Skipped_NoPercent == {<<"d", "a", "t", "a", ":">>, <<"#">>}

Skipped == {<<"d", "a", "t", "a", ":">>, <<"#">>, <<"%">>}

\* The reference of the match with span(1) = sp in the text t: b and e after
\* a leading quote, u2 after the '?' cut, and whether it is left alone.
RefOf(t, sp) ==
    LET quoted == StartsWithAny(Slice(t, sp[1], sp[2]), {<<DQ>>, <<SQ>>})
        b == IF quoted THEN sp[1] + 1 ELSE sp[1]
        e == IF quoted THEN sp[2] - 1 ELSE sp[2]
        u2 == Slice(t, b, e)
        ix == Find(u2, <<"?">>)
        cut == IF ix >= 0 THEN Slice(u2, 0, ix) ELSE u2
    IN  [b |-> b, e |-> e, u2 |-> cut, skip |-> StartsWithAny(cut, Skipped)]

\* u2 made absolute against the stylesheet's own URL.
Resolve(old_u, u2) ==
    IF StartsWith(u2, <<"/", "/">>)
    THEN <<"h", "t", "t", "p", "s", ":">> \o u2
    ELSE url_relative(old_u, u2)

\* The requests a new u2 named nm causes, in order, with the names they are
\* registered under.
Fetches(u2, nm) ==
    IF nm = MARKER_ICON
    THEN <<<<u2, nm>>,
           <<Replace(u2, MARKER_ICON, MARKER_ICON_2X), MARKER_ICON_2X>>,
           <<Replace(u2, MARKER_ICON, MARKER_SHADOW), MARKER_SHADOW>>>>
    ELSE <<<<u2, nm>>>>

\* text[:b] + PLACEHOLDER + '/' + name2 + text[e:]
Spliced(t, b, e, nm) == Slice(t, 0, b) \o PLACEHOLDER \o SLASH \o nm \o From(t, e)

\* The end of one pass of the loop over the matches: after the last match the
\* file is written if a reference was rewritten.
CssAdvance(dir, lg, t, m) ==
    /\ ms' = Tail(ms)
    /\ text' = t
    /\ matched' = m
    /\ local_dir' = IF Tail(ms) = <<>> /\ m THEN (cur[2] :> t) @@ dir ELSE dir
    /\ log' = IF Tail(ms) = <<>> /\ m THEN Append(lg, <<"write", cur[1], cur[2]>>)
                                     ELSE lg
    /\ pc' = IF Tail(ms) = <<>> THEN "css" ELSE "css_ref"

\* One match of the loop over the matches of the current file.
CssRef ==
    /\ pc = "css_ref"
    /\ LET r == RefOf(text, Head(ms))
           u2 == Resolve(cur[1], r.u2)
           nm == url_to_name(u2)
           dl == Fetches(u2, nm)
       IN  IF r.skip
           THEN /\ CssAdvance(local_dir, log, text, matched)
                /\ UNCHANGED <<url_map, name2, todo>>
           ELSE IF Has(url_map, u2)
           THEN IF name2 = Unbound
                THEN /\ pc' = "error"
                     /\ UNCHANGED <<url_map, name2, todo, log, local_dir, text, ms,
                                    matched>>
                ELSE /\ CssAdvance(local_dir, log,
                                   Spliced(text, r.b, r.e, name2), TRUE)
                     /\ UNCHANGED <<url_map, name2, todo>>
           ELSE IF nm = ValueError
           THEN /\ pc' = "error"
                /\ UNCHANGED <<url_map, name2, todo, log, local_dir, text, ms, matched>>
           ELSE \E n \in 0..Len(dl) :
                  LET k == Succeed(dl, n) IN
                  /\ url_map' = PutAll(url_map, SubSeq(dl, 1, k))
                  /\ todo' = Pending(todo, SubSeq(dl, 1, k))
                  /\ name2' = nm
                  /\ IF k < Len(dl)
                     THEN /\ pc' = "error"
                          /\ local_dir' = download_file(local_dir, dl, k)
                          /\ log' = log \o GetLog(dl, k)
                          /\ UNCHANGED <<text, ms, matched>>
                     ELSE CssAdvance(download_file(local_dir, dl, k),
                                     log \o GetLog(dl, k),
                                     Spliced(text, r.b, r.e, nm), TRUE)
    /\ UNCHANGED <<args_dir, folium, scanVars, web_css, cur, nrep, args_url, fnVars>>

JSON_NAME == <<"zzdownloaded.json">>

\* No entry is left: download_from_css returns and _process writes the map.
CssEnd ==
    /\ pc = "css"
    /\ CssLeft = {}
    /\ todo' = <<>>
    /\ local_dir' = (JSON_NAME :> <<"json" \o ToString(url_map)>>) @@ local_dir
    /\ pc' = "processed"
    /\ UNCHANGED <<args_dir, folium, scanVars, url_map, web_css, log, cur, text, ms,
                   matched, name2, nrep, args_url, fnVars>>

\* ------------------------------------------------------------- _replace

replace_FirstOnly(buf, url_prefix) ==
    IF Find(buf, PLACEHOLDER) >= 0
    THEN Slice(buf, 0, Find(buf, PLACEHOLDER \o SLASH)) \o url_prefix
         \o From(buf, Find(buf, PLACEHOLDER \o SLASH) + Len(PLACEHOLDER) + 1)
    ELSE buf

\* replace's body for one file
replace(buf, url_prefix) ==
    IF Find(buf, PLACEHOLDER) >= 0
    THEN Replace(buf, PLACEHOLDER \o SLASH, url_prefix)
    ELSE buf

\* A run of `replace --url u`; a later run is given the same arguments.
ReplaceRun ==
    /\ pc \in {"processed", "replaced"}
    /\ args_dir
    /\ nrep < MaxReplace
    /\ \E u \in IF nrep = 0 THEN BaseUrls ELSE {args_url} :
         LET url == RStrip(u, {"/"}) \o SLASH IN
         /\ args_url' = u
         /\ folium' = [i \in DOMAIN folium |-> replace(folium[i], url)]
         /\ local_dir' = [n \in DOMAIN local_dir |->
                            IF EndsWith(n, <<".", "c", "s", "s">>)
                            THEN replace(local_dir[n], <<>>)
                            ELSE local_dir[n]]
    /\ nrep' = nrep + 1
    /\ pc' = "replaced"
    /\ UNCHANGED <<args_dir, scanVars, url_map, web_css, log, cssVars, fnVars>>

\* ------------------------------------------------------------ the run

Idle ==
    /\ fi = 0 /\ old_lines = <<>> /\ upd_lines = <<>> /\ url_map = <<>>
    /\ local_dir = NoFiles /\ log = <<>> /\ todo = <<>> /\ cur = None
    /\ text = <<>> /\ ms = <<>> /\ matched = FALSE /\ name2 = Unbound
    /\ nrep = 0 /\ args_url = None

\* `process --folium F --dir D`, then `replace --folium F --dir D --url U`.
Init ==
    /\ pc = "scan"
    /\ args_dir = TRUE
    /\ folium \in PipeTrees
    /\ web_css \in CssTexts
    /\ Idle
    /\ call = None /\ ret = None

Next ==
    \/ LocalHttps
    \/ DownloadFromPy
    \/ CssOpen
    \/ CssRef
    \/ CssEnd
    \/ ReplaceRun

Spec == Init /\ [][Next]_vars

\* `process --folium F` on one file.
InitScan ==
    /\ pc = "scan"
    /\ args_dir = FALSE
    /\ folium \in {<<Join(ls)>> : ls \in SeqsUpTo(ScanLines, MaxLines)}
    /\ web_css = <<>>
    /\ Idle
    /\ call = None /\ ret = None

NextScan == LocalHttps

SpecScan == InitScan /\ [][NextScan]_vars

\* ------------------------------------------------------- single calls

Ups(k) == Join([i \in 1..k |-> UP])

\* 'https://a' and the segments, each after a '/'.
UrlOf(segs) == HTTPS \o <<"a">> \o Join([i \in DOMAIN segs |-> SLASH \o segs[i]])

FnCalls ==
    {[op |-> "url_relative", segs |-> s, k |-> k, rest |-> r] :
        s \in SeqsUpTo(FnSegs, MaxSegs), k \in 0..MaxUps, r \in FnRests}
    \cup
    {[op |-> "url_to_name", segs |-> s, k |-> 0, rest |-> r] :
        s \in SeqsUpTo(FnSegs, MaxSegs), r \in FnTails}

CallUrlRelative ==
    /\ pc = "fn"
    /\ call.op = "url_relative"
    /\ ret' = url_relative(UrlOf(call.segs), Ups(call.k) \o call.rest)
    /\ pc' = "fn_done"
    /\ UNCHANGED <<args_dir, folium, scanVars, url_map, web_css, local_dir, log,
                   cssVars, nrep, args_url, call>>

CallUrlToName ==
    /\ pc = "fn"
    /\ call.op = "url_to_name"
    /\ ret' = url_to_name(UrlOf(call.segs) \o call.rest)
    /\ pc' = "fn_done"
    /\ UNCHANGED <<args_dir, folium, scanVars, url_map, web_css, local_dir, log,
                   cssVars, nrep, args_url, call>>

InitFn ==
    /\ pc = "fn"
    /\ args_dir = FALSE
    /\ folium = <<>>
    /\ web_css = <<>>
    /\ Idle
    /\ call \in FnCalls
    /\ ret = None

NextFn == CallUrlRelative \/ CallUrlToName

SpecFn == InitFn /\ [][NextFn]_vars

\* =============================================================== claims

Last(s) == s[Len(s)]

Range(s) == {s[i] : i \in DOMAIN s}

\* The requests made so far, as <<url, name>>, and the stylesheets read.
Gets == SelectSeq(log, LAMBDA x : x[1] = "get")

Reads == SelectSeq(log, LAMBDA x : x[1] = "read")

GetsIn(lg) == SelectSeq(lg, LAMBDA x : x[1] = "get")

\* ------------------------------------------------------------------ C1

\* A quoted URL of the line: the quote at offset b, the scheme (in lower case,
\* or with ci in any case), one or more characters that are no quotes, and
\* the quote at offset e.
C1_QuotedAt(line, b, e, ci) ==
    /\ b + 10 <= e /\ e < Len(line)
    /\ line[b + 1] \in Quotes /\ line[e + 1] \in Quotes
    /\ \A j \in (b + 2)..e : line[j] \notin Quotes
    /\ IF ci THEN LowerStr(SubSeq(line, b + 2, b + 9)) = HTTPS
             ELSE SubSeq(line, b + 2, b + 9) = HTTPS

C1_Spans(line, ci) ==
    {sp \in (0..Len(line)) \X (0..Len(line)) : C1_QuotedAt(line, sp[1], sp[2], ci)}

C1_First(line, ci) ==
    CHOOSE sp \in C1_Spans(line, ci) : \A o \in C1_Spans(line, ci) : sp[1] <= o[1]

C1_IsTranscript(line) ==
    \/ StartsWith(Strip(line), <<">", ">", ">">>)
    \/ StartsWith(Strip(line), <<".", ".", ".">>)

\* The step rewrites the line between the quotes sp and records the URL.
C1_Rewrites(line, sp) ==
    LET url == SubSeq(line, sp[1] + 2, sp[2]) IN
    /\ pc' # "error"
    /\ Last(upd_lines') = SubSeq(line, 1, sp[1] + 1) \o PLACEHOLDER \o SLASH
                          \o url_to_name(url) \o SubSeq(line, sp[2] + 1, Len(line))
    /\ Has(url_map', url)
    /\ Get(url_map', url) = url_to_name(url)

\* C1 as stated: every line with a quoted 'https://' URL that is no transcript
\* line is returned with the text between the quotes of the first such URL
\* replaced by PLACEHOLDER/url_to_name(url), and url_map[url] is that name.
C1_Original ==
    [][(pc = "scan" /\ C1_Spans(ScanLine, FALSE) # {} /\ ~C1_IsTranscript(ScanLine))
          => C1_Rewrites(ScanLine, C1_First(ScanLine, FALSE))]_vars

\* C1 amended: the same, for the lines whose first quoted URL in any case of
\* the scheme (what URL_RE finds) is written 'https://' in lower case.
C1_Amended ==
    [][(/\ pc = "scan"
        /\ C1_Spans(ScanLine, FALSE) # {}
        /\ C1_First(ScanLine, TRUE) = C1_First(ScanLine, FALSE)
        /\ ~C1_IsTranscript(ScanLine))
          => C1_Rewrites(ScanLine, C1_First(ScanLine, FALSE))]_vars

C1_TwoUrlLine ==
    <<"a", "(", DQ>> \o HTTPS \o <<"c", "/", "x">> \o CSS \o <<DQ, ",", SQ>>
    \o HTTPS \o <<"c", "/", "y", SQ, ")", "\n">>

\* A line with two URLs was rewritten at the first and kept as it was elsewhere.
C1_Witness ==
    /\ pc \in {"scan", "processed"}
    /\ Has(url_map, HTTPS \o <<"c", "/", "x">> \o CSS)
    /\ \E i \in DOMAIN upd_lines :
         /\ old_lines[i] = C1_TwoUrlLine
         /\ upd_lines[i] =
              <<"a", "(", DQ>> \o PLACEHOLDER \o SLASH
              \o Get(url_map, HTTPS \o <<"c", "/", "x">> \o CSS) \o <<DQ, ",", SQ>>
              \o HTTPS \o <<"c", "/", "y", SQ, ")", "\n">>

\* ------------------------------------------------------------------ C2

\* C2 as stated: every reference that is not skipped is rewritten to
\* PLACEHOLDER/N, N the name url_map holds for the resolved URL, whether the
\* URL is new or was in url_map before.
C2_Original ==
    [][(pc = "css_ref" /\ ~RefOf(text, Head(ms)).skip)
          => LET r == RefOf(text, Head(ms))
                 u2 == Resolve(cur[1], r.u2)
             IN  /\ Has(url_map, u2) => pc' # "error"
                 /\ pc' # "error" =>
                      /\ Has(url_map', u2)
                      /\ text' = Slice(text, 0, r.b) \o PLACEHOLDER \o SLASH
                                 \o Get(url_map', u2) \o From(text, r.e)]_vars

\* ------------------------------------------------------------------ C3

C3_IsFirstRead(i) ==
    /\ log[i][1] = "read"
    /\ \A j \in 1..(i - 1) : ~(log[j][1] = "read" /\ log[j][3] = log[i][3])

\* The URLs ending in /marker-icon.png that a reference of a stylesheet read
\* in the pass resolves to.
C3_IconUrls ==
    {u \in {Resolve(log[i][2], RefOf(web_css, sp).u2) :
              i \in {j \in DOMAIN log : C3_IsFirstRead(j)},
              sp \in {x \in Range(CssFindIter(web_css, 0)) : ~RefOf(web_css, x).skip}} :
       StartsWith(u, HTTPS) /\ EndsWith(u, SLASH \o MARKER_ICON)}

C3_Sibling(u, name) == Slice(u, 0, RFind(u, SLASH) + 1) \o name

\* C3 as stated: when the pass has ended, the marker icon a stylesheet refers
\* to and its two siblings are in url_map and have been downloaded, whatever
\* url_map held before.
C3_Original ==
    pc = "processed" =>
      \A u \in C3_IconUrls :
        \A n \in {MARKER_ICON, MARKER_ICON_2X, MARKER_SHADOW} :
          /\ Has(url_map, C3_Sibling(u, n))
          /\ <<"get", C3_Sibling(u, n), n>> \in Range(log)

\* ------------------------------------------------------------------ C4

C4_BeforeHash(suffix) ==
    IF Find(suffix, <<"#">>) >= 0 THEN Slice(suffix, 0, Find(suffix, <<"#">>))
    ELSE suffix

\* C4 as stated: for a URL that ends in no well-known name, url_to_name
\* returns the digest of the URL followed by the URL's suffix, cut just
\* before a '#'.
C4_Original ==
    (/\ pc = "fn_done"
     /\ call.op = "url_to_name"
     /\ ~EndsWithAny(UrlOf(call.segs) \o call.rest, WellKnown))
      => ret = Sha1Hex(UrlOf(call.segs) \o call.rest)
               \o C4_BeforeHash(PathSuffix(UrlOf(call.segs) \o call.rest))

\* ------------------------------------------------------------------ C5

C6_NoPlaceholder(py, dir) ==
    /\ \A i \in DOMAIN py : Find(py[i], PLACEHOLDER) < 0
    /\ \A n \in DOMAIN dir : EndsWith(n, CSS) => Find(dir[n], PLACEHOLDER) < 0

\* C6: after a replace no .py file and no stylesheet contains the
\* placeholder, and a second replace with the same arguments finds none and
\* changes no file.
C6_ReplaceTwice ==
    [][(pc \in {"processed", "replaced"} /\ nrep' = nrep + 1)
          => /\ C6_NoPlaceholder(folium', local_dir')
             /\ nrep >= 1 => /\ args_url' = args_url
                             /\ C6_NoPlaceholder(folium, local_dir)
                             /\ folium' = folium
                             /\ local_dir' = local_dir]_vars

\* Two replace runs are done on a tree and a stylesheet that process rewrote.
C6_Witness ==
    /\ nrep = 2
    /\ \E i \in DOMAIN folium : Find(folium[i], HTTPS \o <<"l", "/", "b", "/">>) >= 0
    /\ \E i \in DOMAIN log : log[i][1] = "write" /\ EndsWith(log[i][3], CSS)

\* ------------------------------------------------------------------ C7

\* C7: for a base of at least k+1 segments and a reference of k '../' and a
\* rest, url_relative gives the base without its last k+1 segments, '/', and
\* the rest.
C7_UrlRelative ==
    (pc = "fn_done" /\ call.op = "url_relative" /\ Len(call.segs) >= call.k + 1)
      => ret = UrlOf(SubSeq(call.segs, 1, Len(call.segs) - call.k - 1))
               \o SLASH \o call.rest

\* ('https://a/b/b/x.css', '../i/x') gave 'https://a/b/i/x'.
C7_Witness ==
    /\ pc = "fn_done"
    /\ call.op = "url_relative"
    /\ call.k = 1
    /\ call.segs = << <<"b">>, <<"b">>, <<"x">> \o CSS >>
    /\ ret = HTTPS \o <<"a", "/", "b", "/", "i", "/", "x">>

\* ------------------------------------------------------------------ C8

C8_FirstRead ==
    IF Reads = <<>> THEN Len(log) + 1
    ELSE SetMin({i \in DOMAIN log : log[i][1] = "read"})

\* url_map when the pass started: what download_from_py fetched.
C8_Snapshot ==
    LET before == GetsIn(SubSeq(log, 1, C8_FirstRead - 1))
    IN  [i \in DOMAIN before |-> <<before[i][2], before[i][3]>>]

C8_Css(entries) == SelectSeq(entries, LAMBDA x : EndsWith(x[2], CSS))

C8_ReadEntries == [i \in DOMAIN Reads |-> <<Reads[i][2], Reads[i][3]>>]

C8_IsPrefix(s, t) == Len(s) <= Len(t) /\ s = SubSeq(t, 1, Len(s))

C9_HttpsKeys == \A i \in DOMAIN url_map : StartsWith(url_map[i][1], HTTPS)

\* A '//' reference and the marker icons were registered by the pass.
C9_Witness ==
    /\ Has(url_map, HTTPS \o <<"c", "/", "x">> \o PNG)
    /\ Has(url_map, HostA \o MARKER_SHADOW)

\* ----------------------------------------------------------------- C10

C10_IsSkipped(raw) ==
    LET inner == IF raw[1] \in Quotes THEN SubSeq(raw, 2, Len(raw) - 1) ELSE raw
        cut == IF Find(inner, <<"?">>) >= 0 THEN Slice(inner, 0, Find(inner, <<"?">>))
               ELSE inner
    IN  \/ StartsWith(cut, <<"d", "a", "t", "a", ":">>)
        \/ StartsWith(cut, <<"#">>)
        \/ StartsWith(cut, <<"%">>)

\* What stands in the parentheses of the url() references of t.
C10_Refs(t) ==
    LET found == CssFindIter(t, 0)
    IN  [i \in DOMAIN found |-> Slice(t, found[i][1], found[i][2])]

\* The skipped references of t, in order.
C10_SkippedRefs(t) == SelectSeq(C10_Refs(t), C10_IsSkipped)

C10_State ==
    /\ pc \in {"css", "css_ref"} /\ cur # None
         => C10_SkippedRefs(text) = C10_SkippedRefs(web_css)
    /\ \A n \in DOMAIN local_dir :
         EndsWith(n, CSS) =>
           /\ C10_SkippedRefs(local_dir[n]) = C10_SkippedRefs(web_css)
           /\ (nrep = 0 /\ C10_SkippedRefs(web_css) = C10_Refs(web_css))
                => local_dir[n] = web_css
    /\ C10_SkippedRefs(web_css) = C10_Refs(web_css)
         => \A i \in DOMAIN log : log[i][1] = "write" => log[i][2] = <<"py">>

C10_Step ==
    (pc = "css_ref" /\ C10_IsSkipped(Slice(text, Head(ms)[1], Head(ms)[2])))
      => /\ pc' # "error"
         /\ text' = text
         /\ url_map' = url_map
         /\ matched' = matched
         /\ GetsIn(log') = GetsIn(log)
         /\ ~matched => local_dir' = local_dir /\ log' = log

\* C10: the skipped references of a stylesheet stand unchanged, in order, in
\* the text being rewritten and in every stylesheet of the directory; the step
\* at a skipped reference changes neither the text nor url_map and requests
\* nothing; a stylesheet whose references are all skipped is not written.
C10_SkippedUntouched == []C10_State /\ [][C10_Step]_vars

\* A stylesheet with a skipped and a rewritten reference was written back.
C10_Witness ==
    /\ pc = "processed"
    /\ \E i \in DOMAIN log :
         /\ log[i][1] = "write" /\ log[i][2] # <<"py">>
         /\ Find(local_dir[log[i][3]], URL_OPEN \o <<"d", "a", "t", "a", ":", "x", ")">>) >= 0
         /\ Find(local_dir[log[i][3]], PLACEHOLDER) >= 0
         /\ Len(C10_Refs(web_css)) = 2

====
